---- MODULE Spec2Model ----
(***************************************************************************)
(* AgentBridge: the Mediator (a single-slot, type-bound rendezvous        *)
(* channel on an asyncio.Condition) and the AgentReceives registry that   *)
(* keeps one Mediator per model name.                                      *)
(*                                                                         *)
(* A step of the model is what one asyncio task runs between two          *)
(* suspension points: the event loop is single-threaded, so the code      *)
(* between two awaits that really suspend is atomic.  The suspension      *)
(* points of the code are                                                  *)
(*   - Condition.wait()        (mediator.py:82), pc = "waiting"            *)
(*   - Lock.acquire() on a held lock (mediator.py:32,75), pc = "acquire"   *)
(*   - await listener_future   (agent_receives.py:53), pc = "awaiting"     *)
(* A task that was woken sits in the loop's FIFO ready queue until the    *)
(* loop resumes it.  A call starts either in a task of its own, scheduled *)
(* before or after the woken ones, or in the task that has just returned  *)
(* from another call, so a new call may start between any two steps.      *)
(***************************************************************************)
EXTENDS Integers, Sequences, FiniteSets, TLC

\* number of calls (one asyncio task each) a behaviour may start
MaxTasks == 4
\* number of calls a behaviour may make through the registry
MaxRegistryCalls == 3
\* number of Mediator objects a registry behaviour may construct
MaxMediators == 2

Tasks == 1..MaxTasks

\* None (an empty slot, a missing dict entry, no future)
None == 0

(***************************************************************************)
(* The payload classes.  TestModel1_r is the TestModel1 that              *)
(* test_agent_receies.py defines: another class with the same __name__.   *)
(* Every model is a subclass of pydantic's BaseModel.                      *)
(***************************************************************************)
Classes == {"BaseModel", "TestModel1", "TestModel2", "TestModel1_r"}

\* the classes messages are instances of
MessageClasses == {"TestModel1", "TestModel2", "TestModel1_r"}

\* model.__name__ / message.__class__.__name__
ClassName(c) == IF c = "TestModel1_r" THEN "TestModel1" ELSE c

Names == {ClassName(c) : c \in Classes}

\* the classes an instance of class c is an instance of (its mro, object aside)
Mro(c) == {c, "BaseModel"}

\* a buggy type check: compares the class names
IsInstanceByName(msg, model) == ClassName(msg.cls) = ClassName(model)

\* a type check that is left out
IsInstanceAny(msg, model) == TRUE

\* isinstance(message, self._model)
IsInstance(msg, model) == model \in Mro(msg.cls)

NoMsg == [cls |-> "none", id |-> None]

\* the message a task sends: an instance of class c, its own object
Message(t, c) == [cls |-> c, id |-> t]

\* Mediator.__init__
NewMediator(model) ==
    [model |-> model, listener |-> None, waiters |-> <<>>,
     lock |-> None, lock_waiters |-> <<>>, armings |-> 0]

\* a future: its state and result, and where it comes from: the Mediator that
\* created it, as its arming-th listener, waking woke suspended senders
NoFuture == [state |-> "none", value |-> NoMsg, med |-> None, arming |-> 0, woke |-> 0]

InitTask ==
    [pc |-> "idle", op |-> "none", med |-> None, cls |-> "none",
     result |-> "none", fut |-> None, took |-> None, fulfilled |-> None,
     waits |-> 0, armAtWait |-> 0]

VARIABLES
    mediators,  \* AgentReceives.mediators: model name -> Mediator (None: no key)
    pool,       \* the Mediator objects constructed so far
    futures,    \* the futures register_listener created, by creating task
    task,       \* the calls: position, arguments, result, history
    ready       \* the event loop's queue of woken tasks

vars == <<mediators, pool, futures, task, ready>>

Meds == DOMAIN pool

----------------------------------------------------------------------------
(* asyncio.Future *)

\* a done() that never sees a finished future
NeverDone(f) == FALSE

\* Future.done()
Done(f) == futures[f].state \in {"result", "cancelled"}

\* the task suspended in "await listener_future" on f, woken when f is done
Awaiter(f) ==
    LET a == {u \in Tasks : task[u].pc = "awaiting" /\ task[u].fut = f}
    IN  IF a = {} THEN <<>> ELSE <<CHOOSE u \in a : TRUE>>

----------------------------------------------------------------------------
(* asyncio.Condition and its Lock *)

\* Lock.release(): the first task waiting for the lock is woken
LockWoken(M) == IF M.lock_waiters = <<>> THEN <<>> ELSE <<Head(M.lock_waiters)>>

\* a wait that keeps the lock while suspended
WaitKeepsLock(M, t) == t

\* Condition.wait() releases the lock while the task is suspended
LockWhileWaiting(M, t) == None

\* notify(): wakes one waiter only
NotifyOne(M) == IF M.waiters = <<>> THEN 0 ELSE 1

\* notify_all(): how many of the waiting senders are woken
NotifyCount(M) == Len(M.waiters)

\* a check that never sees a registered listener
NeverOccupied(M) == FALSE

\* a check that takes a slot whose future is done for empty
SlotPending(M) == M.listener # None /\ futures[M.listener].state = "pending"

\* "if self._listener is not None" in register_listener
SlotOccupied(M) == M.listener # None

\* a loop condition that never waits
NeverWait(M) == FALSE

\* a loop condition that waits whatever the slot holds
AlwaysWait(M) == TRUE

\* "while self._listener is None" in deliver_message
ShouldWait(M) == M.listener = None

\* a reset that is forgotten
KeepSlot(M) == M.listener

\* "self._listener = None" at the end of deliver_message
ResetSlot(M) == None

----------------------------------------------------------------------------
(* The critical sections.  t holds the lock of mediator m; rec is t's     *)
(* record, M the mediator as t found it, rdy the ready queue without t.   *)
(* Each definition is the state the code leaves behind when the task      *)
(* suspends again or its call ends.                                       *)

World == [pool |-> pool, futures |-> futures, task |-> task, ready |-> ready]

\* the step ends in state W
Becomes(W) ==
    /\ pool' = W.pool
    /\ futures' = W.futures
    /\ task' = W.task
    /\ ready' = W.ready

\* register_listener, lines 37-56
RegisterRun(t, m, rec, M, rdy) ==
    IF SlotOccupied(M)
    THEN [task |-> [task EXCEPT ![t] =
                       [rec EXCEPT !.pc = "done", !.result = "ListenerConflict"]],
          pool |-> [pool EXCEPT ![m] = [M EXCEPT !.lock = None]],
          ready |-> rdy \o LockWoken(M),
          futures |-> futures]
    ELSE LET n == NotifyCount(M) IN
         [futures |-> [futures EXCEPT ![t] =
                          [state |-> "pending", value |-> NoMsg, med |-> m,
                           arming |-> M.armings + 1, woke |-> n]],
          pool |-> [pool EXCEPT ![m] =
                       [M EXCEPT !.listener = t,
                                 !.waiters = SubSeq(M.waiters, n + 1, Len(M.waiters)),
                                 !.armings = @ + 1,
                                 !.lock = None]],
          ready |-> rdy \o SubSeq(M.waiters, 1, n) \o LockWoken(M),
          task |-> [task EXCEPT ![t] =
                       IF rec.op = "register_listener"
                       THEN [rec EXCEPT !.pc = "done", !.result = "handle", !.fut = t]
                       ELSE [rec EXCEPT !.pc = "awaiting", !.fut = t]]]

\* deliver_message, lines 81-95
DeliverRun(t, m, rec, M, rdy) ==
    IF ShouldWait(M)
    THEN \* line 82: park in the condition
         [pool |-> [pool EXCEPT ![m] =
                       [M EXCEPT !.waiters = Append(@, t),
                                 !.lock = LockWhileWaiting(M, t)]],
          task |-> [task EXCEPT ![t] =
                       [rec EXCEPT !.pc = "waiting",
                                   !.waits = @ + 1,
                                   !.armAtWait = M.armings]],
          ready |-> rdy \o (IF LockWhileWaiting(M, t) = None THEN LockWoken(M) ELSE <<>>),
          futures |-> futures]
    ELSE IF M.listener = None
    THEN \* None.done(): the call dies, "async with" releases the lock
         [task |-> [task EXCEPT ![t] =
                       [rec EXCEPT !.pc = "done", !.result = "AttributeError"]],
          pool |-> [pool EXCEPT ![m] = [M EXCEPT !.lock = None]],
          ready |-> rdy \o LockWoken(M),
          futures |-> futures]
    ELSE LET f == M.listener
             fresh == ~Done(f)
         IN  [futures |-> IF fresh
                          THEN [futures EXCEPT ![f].state = "result",
                                               ![f].value = Message(t, rec.cls)]
                          ELSE futures,
              pool |-> [pool EXCEPT ![m] =
                           [M EXCEPT !.listener = ResetSlot(M), !.lock = None]],
              ready |-> rdy \o (IF fresh THEN Awaiter(f) ELSE <<>>) \o LockWoken(M),
              task |-> [task EXCEPT ![t] =
                           [rec EXCEPT !.pc = "done", !.result = "ok", !.took = f,
                                       !.fulfilled = IF fresh THEN f ELSE None]]]

\* the calls that end in register_listener; the others end in deliver_message
RegisterOps == {"register_listener", "agentReceives", "receiveFromAgent"}

Run(t, m, rec, M, rdy) ==
    IF rec.op \in RegisterOps
    THEN RegisterRun(t, m, rec, M, rdy)
    ELSE DeliverRun(t, m, rec, M, rdy)

\* "async with self._listener_condition": Lock.acquire(), then the body.
\* The lock is taken at once when it is free and nobody waits for it; no task
\* of the code is suspended while it holds the lock, so the other branch is
\* taken only if a wait keeps the lock.
Enter(t, m, rec, rdy) ==
    LET M == pool[m] IN
    IF M.lock = None /\ M.lock_waiters = <<>>
    THEN Run(t, m, rec, [M EXCEPT !.lock = t], rdy)
    ELSE [pool |-> [pool EXCEPT ![m].lock_waiters = Append(@, t)],
          task |-> [task EXCEPT ![t] = [rec EXCEPT !.pc = "acquire"]],
          ready |-> rdy,
          futures |-> futures]

----------------------------------------------------------------------------
(* The calls *)

\* calls start in the order of their numbers
CanStart(t) ==
    /\ task[t].pc = "idle"
    /\ \A u \in Tasks : u < t => task[u].pc # "idle"

Started(t, op, m, c) == [task[t] EXCEPT !.op = op, !.med = m, !.cls = c]

\* the call of t ends at once with an exception
Raised(t, op, m, c, error) ==
    [World EXCEPT !.task = [task EXCEPT ![t] =
        [Started(t, op, m, c) EXCEPT !.pc = "done", !.result = error]]]

\* Mediator.register_listener
RegisterListener(t, m) ==
    /\ CanStart(t)
    /\ m \in Meds
    /\ Becomes(Enter(t, m, Started(t, "register_listener", m, pool[m].model), ready))
    /\ UNCHANGED mediators

\* Mediator.deliver_message, from its type check on
Deliver(t, m, op, c) ==
    IF ~IsInstance(Message(t, c), pool[m].model)
    THEN Raised(t, op, m, c, "TypeMismatch")
    ELSE Enter(t, m, Started(t, op, m, c), ready)

\* Mediator.deliver_message with an instance of class c
DeliverMessage(t, m, c) ==
    /\ CanStart(t)
    /\ m \in Meds
    /\ Becomes(Deliver(t, m, "deliver_message", c))
    /\ UNCHANGED mediators

\* the event loop resumes the first woken task
Resume ==
    /\ ready # <<>>
    /\ LET t == Head(ready)
           rec == task[t]
           m == rec.med
       IN  CASE rec.pc = "waiting" ->
                    \* wait() returns once it has the lock again; the loop re-checks
                    Becomes(Enter(t, m, rec, Tail(ready)))
             [] rec.pc = "acquire" ->
                    Becomes(Run(t, m, rec,
                                [pool[m] EXCEPT !.lock = t, !.lock_waiters = Tail(@)],
                                Tail(ready)))
             [] rec.pc = "awaiting" ->
                    /\ task' = [task EXCEPT ![t] =
                                   [rec EXCEPT !.pc = "done",
                                               !.result =
                                                   IF futures[rec.fut].state = "result"
                                                   THEN "value"
                                                   ELSE "CancelledError"]]
                    /\ ready' = Tail(ready)
                    /\ UNCHANGED <<pool, futures>>
    /\ UNCHANGED mediators

\* the wait on handle f is cancelled (a timeout, Task.cancel()): f is cancelled.
\* Cancelling a sender that is suspended in deliver_message is not modelled.
Cancel(f) ==
    /\ futures[f].state = "pending"
    /\ futures' = [futures EXCEPT ![f].state = "cancelled"]
    /\ ready' = ready \o Awaiter(f)
    /\ UNCHANGED <<mediators, pool, task>>

----------------------------------------------------------------------------
(* The registry: AgentReceives *)

\* a lookup that finds any Mediator at all when the name has none
GetOrAny(name) ==
    IF mediators[name] # None THEN mediators[name]
    ELSE IF pool # <<>> THEN Len(pool) ELSE None

\* self.mediators.get(name)
Get(name) == mediators[name]

\* an add that keeps the Mediator a name already has (setdefault)
AddedKeep(c) ==
    [pool |-> Append(pool, NewMediator(c)),
     mediators |-> IF mediators[ClassName(c)] # None THEN mediators
                   ELSE [mediators EXCEPT ![ClassName(c)] = Len(pool) + 1]]

\* the registry after add(c): a new Mediator stored under the class name
Added(c) ==
    [pool |-> Append(pool, NewMediator(c)),
     mediators |-> [mediators EXCEPT ![ClassName(c)] = Len(pool) + 1]]

\* AgentReceives.add
Add(c) ==
    /\ Len(pool) < MaxMediators
    /\ pool' = Added(c).pool
    /\ mediators' = Added(c).mediators
    /\ UNCHANGED <<futures, task, ready>>

\* agentReceives(c) called in task t, up to its wait on the future
AgentReceivesCall(t, c) ==
    LET m == Get(ClassName(c)) IN
    IF m = None
    THEN Raised(t, "agentReceives", None, c, "UnknownType")
    ELSE Enter(t, m, Started(t, "agentReceives", m, c), ready)

\* AgentReceives.agentReceives
AgentReceives(t, c) ==
    /\ CanStart(t)
    /\ t <= MaxRegistryCalls
    /\ Becomes(AgentReceivesCall(t, c))
    /\ UNCHANGED mediators

\* sendToAgent(message) called in task t with an instance of class c
SendToAgentCall(t, c) ==
    LET m == Get(ClassName(c)) IN
    IF m = None
    THEN Raised(t, "sendToAgent", None, c, "UnknownType")
    ELSE Deliver(t, m, "sendToAgent", c)

\* AgentReceives.sendToAgent
SendToAgent(t, c) ==
    /\ CanStart(t)
    /\ t <= MaxRegistryCalls
    /\ Becomes(SendToAgentCall(t, c))
    /\ UNCHANGED mediators

----------------------------------------------------------------------------
(* The registry: AgentSends.  In SendsSpec the variable mediators is      *)
(* AgentSends.mediators.                                                  *)

\* self.mediators.get(name) in AgentSends
SendsGet(name) == mediators[name]

\* the registry after AgentSends.add(c)
SendsAdded(c) ==
    [pool |-> Append(pool, NewMediator(c)),
     mediators |-> [mediators EXCEPT ![ClassName(c)] = Len(pool) + 1]]

\* AgentSends.add
SendsAdd(c) ==
    /\ Len(pool) < MaxMediators
    /\ pool' = SendsAdded(c).pool
    /\ mediators' = SendsAdded(c).mediators
    /\ UNCHANGED <<futures, task, ready>>

\* agentSends(message) called in task t with an instance of class c
AgentSendsCall(t, c) ==
    LET m == SendsGet(ClassName(c)) IN
    IF m = None
    THEN Raised(t, "agentSends", None, c, "UnknownType")
    ELSE Deliver(t, m, "agentSends", c)

\* AgentSends.agentSends
AgentSends(t, c) ==
    /\ CanStart(t)
    /\ t <= MaxRegistryCalls
    /\ Becomes(AgentSendsCall(t, c))
    /\ UNCHANGED mediators

\* receiveFromAgent(c) called in task t, up to its wait on the future
ReceiveFromAgentCall(t, c) ==
    LET m == SendsGet(ClassName(c)) IN
    IF m = None
    THEN Raised(t, "receiveFromAgent", None, c, "UnknownType")
    ELSE Enter(t, m, Started(t, "receiveFromAgent", m, c), ready)

\* AgentSends.receiveFromAgent
ReceiveFromAgent(t, c) ==
    /\ CanStart(t)
    /\ t <= MaxRegistryCalls
    /\ Becomes(ReceiveFromAgentCall(t, c))
    /\ UNCHANGED mediators

----------------------------------------------------------------------------

\* one Mediator, used directly (test_mediator.py)
Init ==
    /\ mediators = [n \in Names |-> None]
    /\ \E c \in Classes : pool = <<NewMediator(c)>>
    /\ futures = [t \in Tasks |-> NoFuture]
    /\ task = [t \in Tasks |-> InitTask]
    /\ ready = <<>>

Next ==
    \/ \E t \in Tasks, m \in Meds : RegisterListener(t, m)
    \/ \E t \in Tasks, m \in Meds, c \in MessageClasses : DeliverMessage(t, m, c)
    \/ Resume
    \/ \E f \in Tasks : Cancel(f)

Spec == Init /\ [][Next]_vars

\* one Mediator without cancellation; the event loop runs every task that is
\* ready (weak fairness of Resume), nobody is bound to make another call
FairNext ==
    \/ \E t \in Tasks, m \in Meds : RegisterListener(t, m)
    \/ \E t \in Tasks, m \in Meds, c \in MessageClasses : DeliverMessage(t, m, c)
    \/ Resume

FairSpec == Init /\ [][FairNext]_vars /\ WF_vars(Resume)

\* an AgentReceives registry, empty at first (test_agent_receies.py)
RegistryInit ==
    /\ mediators = [n \in Names |-> None]
    /\ pool = <<>>
    /\ futures = [t \in Tasks |-> NoFuture]
    /\ task = [t \in Tasks |-> InitTask]
    /\ ready = <<>>

RegistryNext ==
    \/ \E c \in MessageClasses : Add(c)
    \/ \E t \in Tasks, c \in MessageClasses : AgentReceives(t, c)
    \/ \E t \in Tasks, c \in MessageClasses : SendToAgent(t, c)
    \/ Resume
    \/ \E f \in Tasks : Cancel(f)

RegistrySpec == RegistryInit /\ [][RegistryNext]_vars

\* an AgentSends registry, empty at first (test_agent_sends.py)
SendsNext ==
    \/ \E c \in MessageClasses : SendsAdd(c)
    \/ \E t \in Tasks, c \in MessageClasses : ReceiveFromAgent(t, c)
    \/ \E t \in Tasks, c \in MessageClasses : AgentSends(t, c)
    \/ Resume
    \/ \E f \in Tasks : Cancel(f)

SendsSpec == RegistryInit /\ [][SendsNext]_vars

----------------------------------------------------------------------------
(* Vocabulary of the properties *)

IsSender(t) == task[t].op \in {"deliver_message", "sendToAgent", "agentSends"}
IsListener(t) == task[t].op \in RegisterOps

\* the call of t starts in this step
Starts(t) == task[t].pc = "idle" /\ task'[t].pc # "idle"

\* the handles of Mediator m that are still unfulfilled
Pending(m) == {f \in Tasks : futures[f].med = m /\ futures[f].state = "pending"}

\* Mediator m is Armed with an unfulfilled handle
Armed(m) == pool[m].listener # None /\ futures[pool[m].listener].state = "pending"

\* t is parked in the condition of its Mediator, not yet notified
Parked(t) ==
    /\ task[t].pc = "waiting"
    /\ \E i \in DOMAIN pool[task[t].med].waiters : pool[task[t].med].waiters[i] = t

----------------------------------------------------------------------------
(* C1: in every reachable state a channel has at most one unfulfilled     *)
(* handle, and that handle is the one in its slot: a second               *)
(* register_listener succeeds only after a deliver_message reset the slot. *)
C1_AtMostOnePending ==
    \A m \in Meds :
        /\ Cardinality(Pending(m)) <= 1
        /\ Pending(m) \subseteq {pool[m].listener}

\* a register_listener call was refused while the first handle was pending
C1_Witness ==
    \E t, u \in Tasks :
        /\ task[t].result = "handle" /\ futures[t].state = "pending"
        /\ task[u].op = "register_listener" /\ task[u].result = "ListenerConflict"
        /\ task[u].med = task[t].med

(* C2: completed deliveries and fulfilled registrations correspond one to *)
(* one: every deliver_message call that returned normally fulfilled       *)
(* exactly one handle with its own message, and every fulfilled handle    *)
(* was fulfilled by exactly one call.                                      *)
C2_OneValuePerRegistration ==
    /\ \A t \in Tasks :
           (IsSender(t) /\ task[t].pc = "done" /\ task[t].result = "ok") =>
               /\ task[t].fulfilled # None
               /\ futures[task[t].fulfilled].value = Message(t, task[t].cls)
    /\ \A f \in Tasks :
           futures[f].state = "result" =>
               Cardinality({t \in Tasks : task[t].fulfilled = f}) = 1

(* C3: round trip.  A type-correct deliver_message call that finds the    *)
(* channel Armed with handle h returns in the same step (it never waits   *)
(* for a listener), h holds its message and the slot is empty; and a      *)
(* register_listener call on an Idle channel gets a fresh handle.         *)
C3_RoundTrip ==
    [][\A t \in Tasks :
        LET m == task'[t].med
            c == task'[t].cls
        IN  /\ (/\ Starts(t)
                /\ task'[t].op = "deliver_message"
                /\ Armed(m)
                /\ pool[m].model \in Mro(c))
               => /\ task'[t].pc = "done"
                  /\ task'[t].result = "ok"
                  /\ task'[t].waits = 0
                  /\ futures'[pool[m].listener].state = "result"
                  /\ futures'[pool[m].listener].value = Message(t, c)
                  /\ pool'[m].listener = None
            /\ (/\ Starts(t)
                /\ task'[t].op = "register_listener"
                /\ pool[m].listener = None)
               => /\ task'[t].result = "handle"
                  /\ pool'[m].listener = t
                  /\ futures'[t].state = "pending"]_vars

\* register, deliver, and a further register that succeeded
C3_Witness ==
    \E l, s, l2 \in Tasks :
        /\ task[l].result = "handle" /\ futures[l].state = "result"
        /\ task[s].op = "deliver_message" /\ task[s].result = "ok"
        /\ task[s].waits = 0 /\ task[s].fulfilled = l
        /\ futures[l].value = Message(s, task[s].cls)
        /\ l < s /\ s < l2
        /\ task[l2].result = "handle" /\ futures[l2].state = "pending"
        /\ task[l2].med = task[l].med

(* C4 as stated: once register_listener arms a channel on which senders   *)
(* are suspended, it is one of the suspended senders that fulfils the new *)
(* handle.                                                                 *)
C4_SuspendedSenderFulfils ==
    \A f \in Tasks :
        (futures[f].state = "result" /\ futures[f].woke > 0) =>
            \E s \in Tasks : task[s].fulfilled = f /\ task[s].waits > 0

(* C4 as amended: a type-correct deliver_message call does not return     *)
(* before it has found a listener; one that was suspended returns only    *)
(* with a handle that was registered after it began to wait; a handle is  *)
(* fulfilled by at most one call, with that call's own message.           *)
C4_WaitsForListener ==
    /\ \A s \in Tasks :
           (IsSender(s) /\ task[s].pc = "done" /\ task[s].result # "TypeMismatch"
                       /\ task[s].result # "UnknownType") =>
               /\ task[s].result = "ok"
               /\ task[s].took # None
               /\ task[s].waits > 0 => futures[task[s].took].arming > task[s].armAtWait
               /\ task[s].fulfilled # None =>
                      /\ task[s].fulfilled = task[s].took
                      /\ futures[task[s].took].value = Message(s, task[s].cls)
    /\ \A f \in Tasks : Cardinality({s \in Tasks : task[s].fulfilled = f}) <= 1

\* a sender that was suspended on the Idle channel completed the handoff
C4_Witness ==
    \E s \in Tasks :
        /\ task[s].op = "deliver_message" /\ task[s].result = "ok"
        /\ task[s].waits > 0
        /\ task[s].fulfilled # None
        /\ futures[task[s].fulfilled].woke > 0

(* C5: a register_listener call made while the channel is Armed fails     *)
(* with ListenerConflict, creates no handle and leaves the Mediator, its  *)
(* slot included, as it was.                                               *)
C5_ListenerConflict ==
    [][\A t \in Tasks :
        LET m == task'[t].med IN
        (Starts(t) /\ task'[t].op = "register_listener" /\ Armed(m)) =>
            /\ task'[t].pc = "done"
            /\ task'[t].result = "ListenerConflict"
            /\ task'[t].fut = None
            /\ futures' = futures
            /\ pool' = pool]_vars

\* after a refused registration, the first handle was the one fulfilled
C5_Witness ==
    \E l, u, s \in Tasks :
        /\ task[l].result = "handle"
        /\ task[u].result = "ListenerConflict" /\ task[u].med = task[l].med
        /\ l < u /\ u < s
        /\ task[s].fulfilled = l
        /\ futures[l].value = Message(s, task[s].cls)

(* C6 as stated: a deliver_message call whose payload class differs from *)
(* the Mediator's model fails with TypeMismatch at once and changes       *)
(* nothing.                                                                *)
C6_OtherTypeFails ==
    [][\A t \in Tasks :
        LET m == task'[t].med
            c == task'[t].cls
        IN  (Starts(t) /\ task'[t].op = "deliver_message" /\ c # pool[m].model) =>
                /\ task'[t].pc = "done"
                /\ task'[t].result = "TypeMismatch"
                /\ UNCHANGED <<pool, futures, ready>>]_vars

(* C6 as amended: a deliver_message call whose payload is not an instance *)
(* of the Mediator's model (its class is neither the model nor a subclass *)
(* of it) fails with TypeMismatch in the step it starts in, Idle or       *)
(* Armed, without waiting, and leaves the slot, the handles and the       *)
(* suspended senders as they were.                                        *)
C6_TypeMismatch ==
    [][\A t \in Tasks :
        LET m == task'[t].med
            c == task'[t].cls
        IN  (Starts(t) /\ task'[t].op = "deliver_message"
                       /\ pool[m].model \notin Mro(c)) =>
                /\ task'[t].pc = "done"
                /\ task'[t].result = "TypeMismatch"
                /\ task'[t].waits = 0
                /\ UNCHANGED <<pool, futures, ready>>]_vars

\* a mismatch while Idle (call 1), and one while Armed by call 2 (call 3)
C6_Witness ==
    /\ task[1].op = "deliver_message" /\ task[1].result = "TypeMismatch"
    /\ task[2].result = "handle" /\ futures[2].state = "pending"
    /\ task[3].op = "deliver_message" /\ task[3].result = "TypeMismatch"
    /\ pool[1].listener = 2

(* C7 as stated: every value a handle is fulfilled with has the class the *)
(* Mediator is bound to.                                                   *)
C7_ValueHasBoundType ==
    \A f \in Tasks :
        futures[f].state = "result" =>
            futures[f].value.cls = pool[futures[f].med].model

(* C7 as amended: every value a handle is fulfilled with is an instance   *)
(* of the Mediator's model (of the model or of a subclass of it), and a   *)
(* call that failed the type check never touched the slot: it neither     *)
(* waited, nor took, nor fulfilled a handle.                              *)
C7_ValueIsInstance ==
    /\ \A f \in Tasks :
           futures[f].state = "result" =>
               pool[futures[f].med].model \in Mro(futures[f].value.cls)
    /\ \A t \in Tasks :
           task[t].result = "TypeMismatch" =>
               /\ task[t].took = None /\ task[t].fulfilled = None
               /\ task[t].waits = 0
               /\ \A f \in Tasks : futures[f].value.id # t

\* a handle fulfilled with an instance of a subclass of the model
C7_Witness ==
    \E f \in Tasks :
        /\ futures[f].state = "result"
        /\ pool[futures[f].med].model = "BaseModel"
        /\ futures[f].value.cls = "TestModel2"

(* C8: agentReceives and sendToAgent for a name that has no Mediator fail *)
(* with UnknownType in the step they start in and change nothing else:    *)
(* no Mediator is made, the dict, the Mediators, the handles and the      *)
(* woken tasks stay as they are; the message of the failed sendToAgent    *)
(* never reaches a listener.                                               *)
C8_UnknownType ==
    /\ [][\A t \in Tasks :
            (Starts(t) /\ task'[t].op \in {"agentReceives", "sendToAgent"}
                       /\ mediators[ClassName(task'[t].cls)] = None) =>
                /\ task'[t].pc = "done"
                /\ task'[t].result = "UnknownType"
                /\ task'[t].med = None
                /\ UNCHANGED <<mediators, pool, futures, ready>>]_vars
    /\ [](\A t \in Tasks :
            task[t].result = "UnknownType" =>
                /\ futures[t].state = "none"
                /\ \A f \in Tasks : futures[f].value.id # t)

\* the name was registered after the failed sendToAgent, and a listener of
\* that type then got another call's message
C8_Witness ==
    \E t, l, s \in Tasks :
        /\ task[t].op = "sendToAgent" /\ task[t].result = "UnknownType"
        /\ task[l].op = "agentReceives" /\ task[l].cls = task[t].cls
        /\ task[l].result = "value"
        /\ futures[l].value = Message(s, task[t].cls)
        /\ s # t

(* C9: a listener that agentReceives registered on the Mediator bound to  *)
(* its model is resolved only with a message of that model's class, sent  *)
(* by a sendToAgent call of that class.                                    *)
C9_NoCrossDelivery ==
    \A l \in Tasks :
        (/\ task[l].op = "agentReceives"
         /\ task[l].fut # None
         /\ pool[task[l].med].model = task[l].cls
         /\ futures[task[l].fut].state = "result") =>
            LET v == futures[task[l].fut].value IN
            /\ v.cls = task[l].cls
            /\ task[v.id].op = "sendToAgent"
            /\ task[v.id].cls = task[l].cls

\* listeners wait for TestModel1 and for TestModel2 on their own Mediators;
\* a TestModel1 message was sent: it resolved the first and not the second
C9_Witness ==
    \E a, b, s \in Tasks :
        /\ task[a].op = "agentReceives" /\ task[a].cls = "TestModel1"
        /\ task[b].op = "agentReceives" /\ task[b].cls = "TestModel2"
        /\ task[a].med # None /\ pool[task[a].med].model = "TestModel1"
        /\ task[b].med # None /\ pool[task[b].med].model = "TestModel2"
        /\ task[s].op = "sendToAgent" /\ task[s].result = "ok"
        /\ futures[a].state = "result" /\ futures[a].value = Message(s, "TestModel1")
        /\ futures[b].state = "pending"

(* C10 as stated: of the senders one register_listener call wakes, one    *)
(* completes and every other goes back to waiting: no two senders that    *)
(* were woken by the same arming have both returned.                      *)
C10_OthersWaitAgain ==
    \A s1, s2 \in Tasks :
        (/\ s1 # s2
         /\ IsSender(s1) /\ IsSender(s2)
         /\ task[s1].med = task[s2].med
         /\ task[s1].waits > 0 /\ task[s2].waits > 0
         /\ task[s1].armAtWait = task[s2].armAtWait) =>
            ~(task[s1].pc = "done" /\ task[s2].pc = "done")

(* C10 as amended: a successful register_listener call wakes every sender *)
(* parked on the channel; a woken sender that resumes while the channel   *)
(* is Idle parks again and changes nothing, one that resumes while it is  *)
(* Armed fulfils the handle in the slot and returns; no two               *)
(* deliver_message calls complete the same handle.                        *)
C10_OneSenderPerArming ==
    /\ [](\A s1, s2 \in Tasks :
            (s1 # s2 /\ task[s1].took # None) => task[s1].took # task[s2].took)
    /\ [][\A m \in Meds :
            (pool[m].listener = None /\ pool'[m].listener # None) =>
                /\ pool'[m].waiters = <<>>
                /\ ready' = ready \o pool[m].waiters]_vars
    /\ [][\A s \in Tasks :
            LET m == task[s].med IN
            (/\ ready # <<>> /\ Head(ready) = s
             /\ task[s].pc = "waiting" /\ task'[s] # task[s]) =>
                IF pool[m].listener = None
                THEN /\ task'[s].pc = "waiting"
                     /\ task'[s].waits = task[s].waits + 1
                     /\ pool'[m].waiters = Append(pool[m].waiters, s)
                     /\ pool'[m].listener = None
                     /\ futures' = futures
                ELSE /\ task'[s].pc = "done"
                     /\ task'[s].took = pool[m].listener
                     /\ pool'[m].listener = None
                     /\ Armed(m) =>
                            futures'[pool[m].listener].value = Message(s, task[s].cls)]_vars

\* two senders were parked, one arming woke both, one fulfilled the handle
\* and the other is parked again
C10_Witness ==
    \E s1, s2, l \in Tasks :
        /\ s1 # s2
        /\ futures[l].woke = 2 /\ futures[l].state = "result"
        /\ task[s1].fulfilled = l /\ task[s1].waits = 1
        /\ task[s2].waits = 2 /\ Parked(s2)

(* C11: agentReceives for a name whose Mediator is Armed by another     *)
(* agentReceives call that is still waiting fails with ListenerConflict   *)
(* in the step it starts in and changes nothing; the first caller keeps   *)
(* its handle in the slot, and the next sendToAgent call for that name    *)
(* resolves that handle with its message and wakes the first caller.      *)
C11_SecondListenerRefused ==
    /\ [][\A t \in Tasks :
            LET m == mediators[ClassName(task'[t].cls)] IN
            (/\ Starts(t) /\ task'[t].op = "agentReceives"
             /\ m # None /\ Armed(m)
             /\ task[pool[m].listener].pc = "awaiting") =>
                /\ task'[t].pc = "done"
                /\ task'[t].result = "ListenerConflict"
                /\ task'[t].fut = None
                /\ UNCHANGED <<mediators, pool, futures, ready>>
                /\ \A u \in Tasks : u # t => task'[u] = task[u]]_vars
    /\ [][\A s \in Tasks :
            LET m == mediators[ClassName(task'[s].cls)] IN
            (/\ Starts(s) /\ task'[s].op = "sendToAgent"
             /\ m # None /\ Armed(m)
             /\ task[pool[m].listener].pc = "awaiting"
             /\ pool[m].model \in Mro(task'[s].cls)) =>
                /\ futures'[pool[m].listener].state = "result"
                /\ futures'[pool[m].listener].value = Message(s, task'[s].cls)
                /\ ready' = Append(ready, pool[m].listener)]_vars
    /\ [](\A l \in Tasks :
            (task[l].op = "agentReceives" /\ task[l].result = "value") =>
                futures[l].state = "result")

\* the second agentReceives was refused, the first one then got the message
C11_Witness ==
    \E l, u, s \in Tasks :
        /\ l < u /\ u < s
        /\ task[l].op = "agentReceives" /\ task[l].result = "value"
        /\ task[u].op = "agentReceives" /\ task[u].result = "ListenerConflict"
        /\ task[u].med = task[l].med
        /\ task[s].op = "sendToAgent" /\ task[s].fulfilled = l
        /\ futures[l].value = Message(s, task[s].cls)

(* C12 as stated: sendToAgent never fails with TypeMismatch.              *)
C12_NoTypeMismatch ==
    \A t \in Tasks : task[t].op = "sendToAgent" => task[t].result # "TypeMismatch"

(* C12 as amended: sendToAgent fails with TypeMismatch only when the      *)
(* Mediator stored under the name of the message's class is bound to      *)
(* another class of the same name; when it is bound to the message's own  *)
(* class the type check accepts the message.                              *)
C12_MismatchOnlyOnSameName ==
    /\ [](\A t \in Tasks :
            (task[t].op = "sendToAgent" /\ task[t].result = "TypeMismatch") =>
                /\ pool[task[t].med].model # task[t].cls
                /\ ClassName(pool[task[t].med].model) = ClassName(task[t].cls))
    /\ [][\A t \in Tasks :
            LET m == mediators[ClassName(task'[t].cls)] IN
            (/\ Starts(t) /\ task'[t].op = "sendToAgent"
             /\ m # None /\ pool[m].model = task'[t].cls) =>
                /\ task'[t].result # "TypeMismatch"
                /\ task'[t].med = m]_vars

\* a TestModel1 of another module was sent to the registry that holds a
\* Mediator for TestModel1: refused; a message of the bound class: delivered
C12_Witness ==
    \E t, s \in Tasks :
        /\ task[t].op = "sendToAgent" /\ task[t].result = "TypeMismatch"
        /\ task[s].op = "sendToAgent" /\ task[s].result = "ok"
        /\ task[s].med = task[t].med
        /\ task[s].fulfilled # None

\* the method of AgentSends that corresponds to a method of AgentReceives
Rename(op) ==
    CASE op = "agentReceives" -> "receiveFromAgent"
      [] op = "sendToAgent" -> "agentSends"
      [] OTHER -> op

\* state W with the calls of AgentReceives renamed to those of AgentSends
Renamed(W) ==
    [W EXCEPT !.task = [u \in Tasks |-> [W.task[u] EXCEPT !.op = Rename(@)]]]

(* C13: in every state an AgentSends registry reaches, each of its calls  *)
(* leaves the state that the corresponding AgentReceives call leaves on   *)
(* a registry in that state, method names aside: add like add,            *)
(* receiveFromAgent like agentReceives, agentSends like sendToAgent; the  *)
(* same result, error, suspension and Mediator states.                    *)
C13_SameBehaviour ==
    /\ \A c \in MessageClasses : SendsAdded(c) = Added(c)
    /\ \A t \in Tasks, c \in MessageClasses :
          CanStart(t) =>
              /\ ReceiveFromAgentCall(t, c) = Renamed(AgentReceivesCall(t, c))
              /\ AgentSendsCall(t, c) = Renamed(SendToAgentCall(t, c))

\* an AgentSends registry has seen add, a receiveFromAgent that got the
\* message of an agentSends, a refused second listener and a type mismatch
C13_Witness ==
    \E l, s \in Tasks :
        /\ task[l].op = "receiveFromAgent" /\ task[l].result = "value"
        /\ task[s].op = "agentSends" /\ task[s].fulfilled = l
        /\ \E u \in Tasks :
              /\ task[u].op \in {"receiveFromAgent", "agentSends"}
              /\ task[u].result \in {"ListenerConflict", "TypeMismatch", "UnknownType"}

\* the type-correct deliver_message call of s on m has not returned yet
InProgress(s, m) ==
    /\ IsSender(s) /\ task[s].med = m
    /\ task[s].pc \in {"waiting", "acquire"}

\* the type-correct deliver_message calls made on m so far
SendersOf(m) ==
    {s \in Tasks : IsSender(s) /\ task[s].med = m /\ task[s].pc # "idle"
                     /\ task[s].result # "TypeMismatch"}

(* C14 as stated, for k = 1: a sender that is the only one blocked on a   *)
(* channel when a registration succeeds eventually returns.               *)
C14_BlockedSenderReturns ==
    \A s \in Tasks :
        (/\ InProgress(s, 1) /\ Armed(1)
         /\ \A u \in Tasks : InProgress(u, 1) => u = s)
            ~> (task[s].pc = "done")

(* C14 as amended: without cancellation and with every ready task run,    *)
(* a channel that holds an unfulfilled handle while a type-correct        *)
(* deliver_message call is in progress has a step enabled, and the handle *)
(* is eventually fulfilled with the channel back to Idle; every consumed  *)
(* registration has released exactly one sender; a sender in progress     *)
(* eventually returns or stays suspended on the quiescent Idle channel    *)
(* only when more type-correct deliver_message calls were made than       *)
(* registrations succeeded.                                               *)
C14_Progress ==
    /\ []((Armed(1) /\ \E s \in Tasks : InProgress(s, 1)) => ENABLED Resume)
    /\ \A h \in Tasks :
          (/\ pool[1].listener = h /\ futures[h].state = "pending"
           /\ \E s \in Tasks : InProgress(s, 1))
              ~> (futures[h].state = "result" /\ pool[1].listener = None)
    /\ [](Cardinality({s \in SendersOf(1) : task[s].pc = "done"})
             = pool[1].armings - (IF pool[1].listener = None THEN 0 ELSE 1))
    /\ \A s \in Tasks :
          InProgress(s, 1)
              ~> \/ task[s].pc = "done" /\ task[s].result = "ok"
                 \/ /\ Parked(s) /\ ready = <<>> /\ pool[1].listener = None
                    /\ Cardinality(SendersOf(1)) > pool[1].armings

\* two senders were suspended, two registrations succeeded one after the
\* other, both senders have returned
C14_Witness ==
    \E s1, s2 \in Tasks :
        /\ s1 # s2
        /\ IsSender(s1) /\ task[s1].waits > 0 /\ task[s1].result = "ok"
        /\ IsSender(s2) /\ task[s2].waits > 0 /\ task[s2].result = "ok"
        /\ pool[1].armings = 2 /\ pool[1].listener = None
        /\ futures[task[s1].took].state = "result"
        /\ futures[task[s2].took].state = "result"

\* the deliver_message call of s returns normally in this step
Completes(s) ==
    /\ IsSender(s)' /\ task[s].pc # "done"
    /\ task'[s].pc = "done" /\ task'[s].result = "ok"

\* the register_listener call of l succeeds in this step
Registers(l) == futures[l].state = "none" /\ futures'[l].state = "pending"

(* C15: the slot of a channel alternates between empty and occupied: the  *)
(* number of successful register_listener calls minus the number of       *)
(* deliver_message calls that have reset the slot is 0 exactly when the   *)
(* slot is empty and 1 exactly when it is occupied; a deliver_message     *)
(* call completes only from an occupied slot and empties it, a            *)
(* register_listener call succeeds only on an empty slot and occupies it, *)
(* and nothing else changes the slot.                                     *)
C15_StrictAlternation ==
    /\ [](pool[1].armings
             - Cardinality({s \in Tasks : IsSender(s) /\ task[s].result = "ok"})
          = IF pool[1].listener = None THEN 0 ELSE 1)
    /\ [][\A s \in Tasks :
            Completes(s) => pool[1].listener # None /\ pool'[1].listener = None]_vars
    /\ [][\A l \in Tasks :
            Registers(l) => pool[1].listener = None /\ pool'[1].listener = l]_vars
    /\ [][pool'[1].listener # pool[1].listener =>
            \/ \E s \in Tasks : Completes(s)
            \/ \E l \in Tasks : Registers(l)]_vars

\* Idle -> Armed -> Idle -> Armed
C15_Witness ==
    /\ pool[1].armings = 2
    /\ pool[1].listener # None
    /\ \E s \in Tasks : IsSender(s) /\ task[s].result = "ok"

(* C16: cancelling the wait on the handle a channel is Armed with leaves  *)
(* the channel as it is, the cancelled handle in its slot; while the slot *)
(* holds a cancelled handle every agentReceives call for the channel      *)
(* fails with ListenerConflict, and only a deliver_message call that      *)
(* completes takes the cancelled handle out of the slot.                  *)
C16_CancelLeavesArmed ==
    /\ [][\A f \in Tasks :
            (futures[f].state = "pending" /\ futures'[f].state = "cancelled") =>
                /\ pool' = pool
                /\ mediators' = mediators]_vars
    /\ [][\A t \in Tasks :
            LET m == mediators[ClassName(task'[t].cls)] IN
            (/\ Starts(t) /\ task'[t].op = "agentReceives"
             /\ m # None /\ pool[m].listener # None
             /\ futures[pool[m].listener].state = "cancelled") =>
                /\ task'[t].pc = "done"
                /\ task'[t].result = "ListenerConflict"
                /\ pool' = pool]_vars
    /\ [][\A m \in 1..MaxMediators :
            (/\ m \in Meds /\ pool[m].listener # None
             /\ futures[pool[m].listener].state = "cancelled"
             /\ pool'[m].listener # pool[m].listener) =>
                \E s \in Tasks : Completes(s) /\ task'[s].took = pool[m].listener]_vars

\* the waiting agentReceives was cancelled, its handle is still in the slot,
\* and a later agentReceives was refused
C16_Witness ==
    \E l, u \in Tasks :
        /\ l < u
        /\ task[l].op = "agentReceives" /\ task[l].result = "CancelledError"
        /\ futures[l].state = "cancelled"
        /\ pool[task[l].med].listener = l
        /\ task[u].op = "agentReceives" /\ task[u].result = "ListenerConflict"
        /\ task[u].med = task[l].med

C18_RegisterNeverWaits ==
    /\ [][\A t \in Tasks :
            (Starts(t) /\ task'[t].op = "register_listener") =>
                /\ task'[t].pc = "done"
                /\ \/ /\ task'[t].result = "handle"
                      /\ task'[t].fut = t
                      /\ Registers(t)
                      /\ pool'[1].listener = t
                   \/ /\ task'[t].result = "ListenerConflict"
                      /\ futures' = futures]_vars
    /\ [](\A t \in Tasks : IsListener(t) => task[t].pc \notin {"waiting", "acquire"})

\* a registration that found senders suspended, and one that was refused
C18_Witness ==
    \E t, u \in Tasks :
        /\ task[t].op = "register_listener" /\ task[t].result = "handle"
        /\ futures[t].woke > 0
        /\ task[u].op = "register_listener" /\ task[u].result = "ListenerConflict"

(* C19: a sendToAgent call is suspended only on an empty slot; one that   *)
(* starts on a channel Armed with an unfulfilled handle resolves the      *)
(* handle and returns in that step, without a wait, while the task that   *)
(* waits on the handle has not run yet.                                   *)
C19_SuspendsOnlyWhileIdle ==
    /\ [][\A s \in Tasks :
            task'[s].waits # task[s].waits =>
                /\ task'[s].pc = "waiting"
                /\ pool[task'[s].med].listener = None
                /\ pool'[task'[s].med].listener = None]_vars
    /\ [][\A s \in Tasks :
            LET m == mediators[ClassName(task'[s].cls)] IN
            (/\ Starts(s) /\ task'[s].op = "sendToAgent"
             /\ m # None /\ Armed(m)
             /\ pool[m].model \in Mro(task'[s].cls)) =>
                /\ task'[s].pc = "done" /\ task'[s].result = "ok"
                /\ task'[s].waits = 0
                /\ task'[s].fulfilled = pool[m].listener
                /\ task'[pool[m].listener] = task[pool[m].listener]]_vars

\* the sender has returned, the listener has not yet seen the message
C19_Witness ==
    \E s, l \in Tasks :
        /\ task[s].op = "sendToAgent" /\ task[s].result = "ok"
        /\ task[s].waits = 0 /\ task[s].fulfilled = l
        /\ task[l].op = "agentReceives" /\ task[l].pc = "awaiting"
        /\ futures[l].state = "result"

\* the senders suspended in the condition of Mediator 1
Waiting == {t \in Tasks : task[t].pc = "waiting"}
InWaiters(t) == \E i \in DOMAIN pool[1].waiters : pool[1].waiters[i] = t
InReady(t) == \E i \in DOMAIN ready : ready[i] = t

(* C20: no lost wakeup: while the slot holds a handle no sender is parked *)
(* in the wait set of the condition; a suspended sender is either parked  *)
(* or woken and about to re-check the slot, never both and never neither; *)
(* the step that arms the channel wakes every sender parked at that time. *)
C20_NoLostWakeup ==
    /\ [](pool[1].listener # None => pool[1].waiters = <<>>)
    /\ [](\A t \in Waiting : InWaiters(t) # InReady(t))
    /\ [][\A l \in Tasks :
            Registers(l) =>
                /\ \A t \in Waiting : InWaiters(t) => InReady(t)'
                /\ futures'[l].woke = Len(pool[1].waiters)]_vars

\* two senders were parked when the channel was armed: both are woken
C20_Witness ==
    /\ Armed(1)
    /\ futures[pool[1].listener].woke = 2
    /\ Cardinality({t \in Waiting : InReady(t)}) = 2

(* C21: mutual exclusion on the slot: no task is suspended while it      *)
(* holds the lock of a channel and none has to queue for it, so the       *)
(* critical sections run one at a time and whole; a sender suspended in   *)
(* the condition does not hold the lock; a step that changes the slot is  *)
(* the critical section of one call, a registration or a delivery, and    *)
(* changes the record of no other task.                                   *)
C21_MutualExclusion ==
    /\ [](pool[1].lock = None /\ pool[1].lock_waiters = <<>>)
    /\ [](\A t \in Tasks :
            /\ task[t].pc # "acquire"
            /\ task[t].pc = "waiting" => pool[1].lock # t)
    /\ [][pool'[1].listener # pool[1].listener =>
            \E t \in Tasks :
                /\ Completes(t) \/ Registers(t)
                /\ \A u \in Tasks : u # t => task'[u] = task[u]]_vars

\* a sender is parked for the second time and a registration took place
\* while it was suspended
C21_Witness ==
    \E s \in Tasks :
        /\ IsSender(s) /\ InWaiters(s) /\ task[s].waits = 2
        /\ pool[1].lock = None
        /\ pool[1].armings > 0

\* the Mediator the registry holds for the class of t's call (None: none)
Looked(t) == mediators[ClassName(task'[t].cls)]

\* all Mediators but m are left as they are
OthersUnchanged(m) ==
    \A n \in 1..MaxMediators : (n \in Meds /\ n # m) => pool'[n] = pool[n]

(* C22: channels of different names are independent: a call changes at   *)
(* most the Mediator stored under the name of its class, a resumed task   *)
(* at most the Mediator it is suspended in, add and a cancellation none   *)
(* of the existing ones; and while the Mediator of another name has a     *)
(* sender suspended or a listener pending, a sendToAgent call on an Armed *)
(* channel completes the handoff in the step it starts in and an          *)
(* agentReceives call on an Idle channel has its handle at once.          *)
C22_ChannelsIndependent ==
    /\ [][\A t \in Tasks : Starts(t) => OthersUnchanged(Looked(t))]_vars
    /\ [][\A t \in Tasks :
            (task[t].pc # "idle" /\ task'[t] # task[t]) =>
                OthersUnchanged(task[t].med)]_vars
    /\ [][(\A t \in Tasks : task'[t] = task[t]) => OthersUnchanged(None)]_vars
    /\ [][\A t \in Tasks :
            LET m == Looked(t) IN
            (/\ Starts(t) /\ m # None
             /\ \E u \in Tasks : /\ task[u].med \notin {None, m}
                                 /\ task[u].pc \in {"waiting", "awaiting"}) =>
                /\ (task'[t].op = "sendToAgent" /\ Armed(m)
                      /\ pool[m].model \in Mro(task'[t].cls))
                       => Completes(t) /\ futures'[pool[m].listener].state = "result"
                /\ (task'[t].op = "agentReceives" /\ pool[m].listener = None)
                       => task'[t].pc = "awaiting" /\ pool'[m].listener = t]_vars

\* a sender is suspended on one channel and a listener got its message on
\* another one that was armed and served after the sender had suspended
C22_Witness ==
    \E s, l, d \in Tasks :
        /\ s < l /\ l < d
        /\ task[s].op = "sendToAgent" /\ task[s].pc = "waiting"
        /\ task[l].op = "agentReceives" /\ task[l].result = "value"
        /\ task[d].op = "sendToAgent" /\ task[d].fulfilled = l
        /\ task[l].med # task[s].med
        /\ ClassName(task[l].cls) # ClassName(task[s].cls)

\* Mediator m is no longer in the registry: add replaced it
Replaced(m) == m \in Meds /\ \A n \in Names : mediators[n] # m

\* a sender that was notified in Mediator m has not re-checked the slot yet
WokenOn(m) == \E t \in Tasks : task[t].med = m /\ task[t].pc = "waiting" /\ InReady(t)

(* C23: add for a name that already has a Mediator stores a fresh Idle    *)
(* Mediator under the name and leaves the old one as it is; no call that  *)
(* starts later touches a replaced Mediator, its futures or the tasks     *)
(* suspended in it; unless a sender was already notified in it when it    *)
(* was replaced, a future pending in its slot is never resolved and a     *)
(* sender parked in it never leaves its wait; the next agentReceives for  *)
(* the name finds the fresh Mediator and gets its handle instead of       *)
(* ListenerConflict.                                                      *)
C23_AddOverwrites ==
    /\ [][Len(pool') # Len(pool) =>
            \E c \in MessageClasses :
                /\ pool' = Append(pool, NewMediator(c))
                /\ mediators'[ClassName(c)] = Len(pool')
                /\ \A n \in Names : n # ClassName(c) => mediators'[n] = mediators[n]]_vars
    /\ [][\A m \in 1..MaxMediators :
            Replaced(m) =>
                /\ Replaced(m)'
                /\ \A t \in Tasks :
                      Starts(t) =>
                          /\ task'[t].med # m
                          /\ pool'[m] = pool[m]
                          /\ futures' = futures \/ futures'[t].med # m
                          /\ \A u \in Tasks : task[u].med = m => task'[u] = task[u]
                /\ ~WokenOn(m) =>
                      /\ pool'[m] = pool[m]
                      /\ ~WokenOn(m)'
                      /\ \A t \in Tasks :
                            task[t].med = m =>
                                /\ task[t].pc = "waiting" => task'[t] = task[t]
                                /\ futures[t].state = "pending" =>
                                       futures'[t].state \in {"pending", "cancelled"}]_vars
    /\ [][\A t \in Tasks :
            (/\ Starts(t) /\ task'[t].op = "agentReceives" /\ Looked(t) # None
             /\ \E m \in 1..MaxMediators :
                   /\ Replaced(m)
                   /\ ClassName(pool[m].model) = ClassName(task'[t].cls)
                   /\ pool[m].listener # None
             /\ pool[Looked(t)].listener = None) =>
                /\ task'[t].pc = "awaiting"
                /\ task'[t].med = Looked(t)
                /\ Registers(t)]_vars

\* a listener is pending on the replaced Mediator while a second
\* agentReceives for the same name has got a handle of the fresh one
C23_Witness ==
    \E l, u \in Tasks :
        /\ l < u
        /\ task[l].op = "agentReceives" /\ task[l].pc = "awaiting"
        /\ futures[l].state = "pending" /\ Replaced(task[l].med)
        /\ task[u].op = "agentReceives" /\ task[u].fut = u
        /\ ClassName(task[u].cls) = ClassName(task[l].cls)
        /\ task[u].med # task[l].med

(* C24: senders are not served in the order of their calls: a            *)
(* type-correct deliver_message call that starts on an Armed channel      *)
(* while earlier senders are still suspended takes the handle in that     *)
(* step and leaves the earlier senders suspended; a sender parked in the  *)
(* condition leaves the wait set only in a step in which a                *)
(* register_listener call succeeds.                                       *)
C24_LaterSenderOvertakes ==
    /\ [][\A s \in Tasks :
            (/\ Starts(s) /\ task'[s].op = "deliver_message"
             /\ pool[1].model \in Mro(task'[s].cls)
             /\ Armed(1)
             /\ \E e \in Waiting : IsSender(e)) =>
                /\ Completes(s)
                /\ task'[s].fulfilled = pool[1].listener
                /\ \A e \in Waiting : task'[e] = task[e]]_vars
    /\ [][\A e \in Tasks :
            (InWaiters(e) /\ ~InWaiters(e)') => \E l \in Tasks : Registers(l)]_vars

\* sender e was suspended when handle h was registered; sender s, started
\* after that, has handed its message over and e is parked again
C24_Witness ==
    \E e, h, s \in Tasks :
        /\ e < h /\ h < s
        /\ IsSender(e) /\ InWaiters(e) /\ task[e].waits = 2
        /\ IsSender(s) /\ task[s].result = "ok" /\ task[s].fulfilled = h
        /\ futures[h].woke > 0 /\ futures[h].value = Message(s, task[s].cls)
        /\ ready = <<>> /\ pool[1].listener = None

====
